---- MODULE Spec2Model ----
(***************************************************************************)
(* Model of HPE_GenAI_Project_LokeshSubmission.py: the Streamlit request   *)
(* handler main() and the module-level functions it calls.  Strings are    *)
(* sequences of one-character strings so that lower(), title() and the     *)
(* regular expressions are computed character by character.                *)
(***************************************************************************)
EXTENDS Integers, Sequences, FiniteSets, TLC

VARIABLES
    pc,              \* position of the running call: "idle", a step name, "returned", "done"
    caller,          \* "main" when the function runs inside main(), "direct" when called on its own
    text,            \* main: text / extract_specific_dates: its argument
    company_names,   \* result of extract_company_name
    periodStatus,    \* outcome of extract_specific_dates: "none", "returned", "raised"
    doc_period,      \* value returned by extract_specific_dates
    keywords,        \* extract_key_tables_from_pdf: keywords argument
    tables,          \* camelot.read_pdf result: per table the text inside its bbox on its page
    idx,             \* loop position of "for table in tables", 0 outside the function
    keyword_tables,  \* extract_key_tables_from_pdf: accumulated list (table_df = detection index)
    docBound,        \* whether the local name doc is bound (to an open handle)
    dataframes,      \* value returned by extract_key_tables_from_pdf
    tblErr,          \* which step of extract_key_tables_from_pdf raised, "none" if none
    tempFiles,       \* number of temporary files existing on disk
    openHandles,     \* number of fitz documents opened and not closed by a close() call
    msgs,            \* st.write / st.error messages shown, in order
    shownCompany,    \* company line written by main, <<>> if none
    shownPeriod,     \* period line written by main, <<>> if none
    shownTables,     \* st.subheader/st.dataframe pairs shown, in order
    ran,             \* set of branches of main that started executing
    outerExc,        \* what raised into main's outer except, "none" if nothing
    qaErr            \* what raised into main's QA except, "none" if nothing

vars == <<pc, caller, text, company_names, periodStatus, doc_period,
          keywords, tables, idx, keyword_tables, docBound, dataframes, tblErr,
          tempFiles, openHandles, msgs, shownCompany, shownPeriod, shownTables,
          ran, outerExc, qaErr>>

----------------------------------------------------------------------------
\* Bounds of the model

MaxPages == 2
MaxEnts == 2
MaxTables == 4

----------------------------------------------------------------------------
\* Character classes and case conversion (str.lower, str.title, re classes)

UpperChars ==
    <<"A", "B", "C", "D", "E", "F", "G", "H", "I", "J", "K", "L", "M", "N", "O", "P", "Q", "R", "S", "T", "U", "V", "W", "X", "Y", "Z">>

LowerChars ==
    <<"a", "b", "c", "d", "e", "f", "g", "h", "i", "j", "k", "l", "m", "n", "o", "p", "q", "r", "s", "t", "u", "v", "w", "x", "y", "z">>

DigitChars ==
    <<"0", "1", "2", "3", "4", "5", "6", "7", "8", "9">>

IndexOf(c, alphabet) ==
    CHOOSE i \in 1..Len(alphabet) : alphabet[i] = c

IsUpper(c) == \E i \in 1..Len(UpperChars) : UpperChars[i] = c
IsLower(c) == \E i \in 1..Len(LowerChars) : LowerChars[i] = c
IsCased(c) == IsUpper(c) \/ IsLower(c)
IsDigit(c) == \E i \in 1..Len(DigitChars) : DigitChars[i] = c
\* \w and \s of module re
IsWord(c) == IsCased(c) \/ IsDigit(c) \/ c = "_"
IsSpace(c) == c \in {" ", "\n", "\t", "\r"}

LowerChar(c) == IF IsUpper(c) THEN LowerChars[IndexOf(c, UpperChars)] ELSE c
UpperChar(c) == IF IsLower(c) THEN UpperChars[IndexOf(c, LowerChars)] ELSE c

\* str.lower()
Lower(s) == [i \in 1..Len(s) |-> LowerChar(s[i])]

\* str.title(): a cased character is upper-cased when it follows an uncased
\* character or starts the string, lower-cased otherwise
Title(s) ==
    [i \in 1..Len(s) |->
        IF i = 1 \/ ~IsCased(s[i - 1]) THEN UpperChar(s[i]) ELSE LowerChar(s[i])]

\* literal lit occurs in s at position i
MatchLit(s, i, lit) ==
    /\ i + Len(lit) - 1 <= Len(s)
    /\ \A j \in 1..Len(lit) : s[i + j - 1] = lit[j]

\* the "in" operator of str
Contains(s, sub) == \E i \in 1..(Len(s) + 1) : MatchLit(s, i, sub)

RECURSIVE Concat(_)
Concat(ss) == IF ss = <<>> THEN <<>> ELSE Head(ss) \o Concat(Tail(ss))

\* all sequences over S of length at most n
SeqsUpTo(S, n) == UNION {[1..k -> S] : k \in 0..n}

----------------------------------------------------------------------------
\* extract_specific_dates: the date_pattern and re.findall

LitForThe ==
    <<"f", "o", "r", " ", "t", "h", "e", " ">>

LitQuarterly ==
    <<"q", "u", "a", "r", "t", "e", "r", "l", "y">>

LitFiscal ==
    <<"f", "i", "s", "c", "a", "l">>

LitPeriodEnded ==
    <<" ", "p", "e", "r", "i", "o", "d", " ", "e", "n", "d", "e", "d", ":">>

LitFiscalYearEnded ==
    <<"f", "o", "r", " ", "t", "h", "e", " ", " ", "f", "i", "s", "c", "a", "l", " ", "y", "e", "a", "r", " ", "e", "n", "d", "e", "d", ":">>

DigitAt(s, i) == i <= Len(s) /\ IsDigit(s[i])
CharAt(s, i, c) == i <= Len(s) /\ s[i] = c
SpaceAt(s, i) == i <= Len(s) /\ IsSpace(s[i])

\* \w+\s\d{1,2},\s\d{4} matches s from d up to e (exclusive): the comma is
\* at e - 6 and the space after the word, w, one or two digits before it
IsDate(s, d, e) ==
    \E w \in {e - 8, e - 9} :
        /\ w > d
        /\ SpaceAt(s, w)
        /\ \A k \in d..(w - 1) : IsWord(s[k])
        /\ \A k \in (w + 1)..(e - 7) : DigitAt(s, k)
        /\ CharAt(s, e - 6, ",")
        /\ SpaceAt(s, e - 5)
        /\ \A k \in (e - 4)..(e - 1) : DigitAt(s, k)

\* \s*(date) from a: the positions d where the date starts and e where it
\* ends (exclusive); \s* takes the whole run of white space
DateSpans(s, a) ==
    UNION {{<<d, e>> : e \in {e \in (d + 9)..(Len(s) + 1) : IsDate(s, d, e)}} :
           d \in {d \in a..Len(s) : /\ ~IsSpace(s[d])
                                    /\ \A k \in a..(d - 1) : IsSpace(s[k])}}

\* first alternative at i: for the (quarterly|fiscal) period ended:\s*(date)
MatchPeriodEnded(s, i) ==
    UNION {
        {[end |-> span[2],
          groups |-> <<SubSeq(s, i, span[2] - 1), kind,
                       SubSeq(s, span[1], span[2] - 1), <<>>, <<>>>>] :
            span \in DateSpans(s, i + Len(LitForThe) + Len(kind) + Len(LitPeriodEnded))} :
        kind \in {k \in {LitQuarterly, LitFiscal} :
                    /\ MatchLit(s, i, LitForThe)
                    /\ MatchLit(s, i + Len(LitForThe), k)
                    /\ MatchLit(s, i + Len(LitForThe) + Len(k), LitPeriodEnded)}}

\* second alternative at i: for the  fiscal year ended:\s*(date)
MatchFiscalYear(s, i) ==
    IF MatchLit(s, i, LitFiscalYearEnded)
    THEN {[end |-> span[2],
           groups |-> <<<<>>, <<>>, <<>>, SubSeq(s, i, span[2] - 1),
                        SubSeq(s, span[1], span[2] - 1)>>] :
             span \in DateSpans(s, i + Len(LitFiscalYearEnded))}
    ELSE {}

\* date_pattern at position i: the match, as a set with at most one element
\* (alternatives tried left to right)
date_pattern(s, i) ==
    IF MatchPeriodEnded(s, i) # {} THEN MatchPeriodEnded(s, i) ELSE MatchFiscalYear(s, i)

\* positions at or after i where date_pattern matches, and the leftmost one
MatchPositions(s, i) == {p \in i..Len(s) : date_pattern(s, p) # {}}

NextMatch(s, i) ==
    {p \in MatchPositions(s, i) : \A q \in MatchPositions(s, i) : p <= q}

\* re.findall(date_pattern, s): the group tuples of the non-overlapping
\* matches, scanning left to right from position i; the scan resumes where
\* the previous match ended
RECURSIVE findall(_, _)
findall(s, i) ==
    IF MatchPositions(s, i) = {} THEN <<>>
    ELSE CHOOSE r \in UNION {{<<m.groups>> \o findall(s, m.end) : m \in date_pattern(s, p)} :
                             p \in NextMatch(s, i)} : TRUE

\* df_period[0][0].title() for the findall result matches; an empty DataFrame
\* has no column 0, so the lookup raises KeyError
first_period(matches) ==
    IF matches = <<>>
    THEN [status |-> "raised", value |-> <<>>]
    ELSE [status |-> "returned", value |-> Title(matches[1][1])]

\* extract_specific_dates(t); the lower-cased text and the matches are bound
\* through singleton sets so that each is computed once
extract_specific_dates(t) ==
    CHOOSE r \in {first_period(m) : m \in {findall(s, 1) : s \in {Lower(t)}}} : TRUE

----------------------------------------------------------------------------
\* main, lines 142-151: the company-name filter

MarkCompany ==
    <<"c", "o", "m", "p", "a", "n", "y">>

MarkInc ==
    <<"i", "n", "c">>

MarkLtd ==
    <<"l", "t", "d">>

MarkEnterprise ==
    <<"e", "n", "t", "e", "r", "p", "r", "i", "s", "e">>

MarkCorporation ==
    <<"c", "o", "r", "p", "o", "r", "a", "t", "i", "o", "n">>

Unknown ==
    <<"U", "n", "k", "n", "o", "w", "n">>

\* Series.str.contains("company|inc.|ltd|enterprise|corporation") on one
\* lower-cased value: re.search, in which "." is any character but a newline
str_contains_markers(s) ==
    \E i \in 1..Len(s) :
        \/ MatchLit(s, i, MarkCompany)
        \/ (MatchLit(s, i, MarkInc) /\ i + 3 <= Len(s) /\ s[i + 3] # "\n")
        \/ MatchLit(s, i, MarkLtd)
        \/ MatchLit(s, i, MarkEnterprise)
        \/ MatchLit(s, i, MarkCorporation)

\* filtered_df: the rows of df whose lower-cased name matches, in order
filtered_df(names) ==
    SelectSeq(names, LAMBDA e : \E s \in {Lower(e)} : str_contains_markers(s))

\* first_company
first_company(names) ==
    IF filtered_df(names) # <<>> THEN filtered_df(names)[1] ELSE Unknown

----------------------------------------------------------------------------
\* contains_keywords and the table labels

\* a comparison that forgets to lower-case its operands
contains_keywords_cased(t, kws) ==
    \E k \in 1..Len(kws) : Contains(t, kws[k])

contains_keywords(t, kws) ==
    \E k \in 1..Len(kws) :
        \E s \in {Lower(t)}, w \in {Lower(kws[k])} : Contains(s, w)

table_labels ==
    <<"Consolidated Statements of Earnings", "Consolidated Balance Sheets",
      "Consolidated Statements of Cash Flows">>

\* a loop over all of dataframes instead of dataframes[:3]
enumerate_dataframes_all(dfs) ==
    [i \in 1..Len(dfs) |->
        [label |-> IF i <= Len(table_labels) THEN table_labels[i]
                   ELSE "Table " \o ToString(i),
         df |-> dfs[i]]]

\* main, lines 170-173: the (label, dataframe) pairs shown for dataframes[:3]
enumerate_dataframes(dfs) ==
    [i \in 1..(IF Len(dfs) < 3 THEN Len(dfs) ELSE 3) |->
        [label |-> IF i <= Len(table_labels) THEN table_labels[i]
                   ELSE "Table " \o ToString(i),
         df |-> dfs[i]]]

----------------------------------------------------------------------------
\* Messages of st.write / st.error (the formatted exception text left out)

NoCompanyMsg == "No company names found in the document."
NoDatesMsg == "No specific dates found in the document."
NoTablesMsg == "No tables matching the specified keywords extracted."
TablesErrorMsg == "An error occurred while reading key tables from PDF"
QAErrorMsg == "An error occurred while executing QA Section"
OuterErrorMsg == "An error occurred"
AnswerMsg == "Answer"
SourcesMsg == "Source Documents"

Shown(m) == \E i \in 1..Len(msgs) : msgs[i] = m

----------------------------------------------------------------------------
\* Inputs: what the collaborators (PyMuPDF, spaCy, camelot) can return

SegQuarterly ==
    <<"F", "o", "r", " ", "t", "h", "e", " ", "Q", "u", "a", "r", "t", "e", "r", "l", "y", " ", "p", "e", "r", "i", "o", "d", " ", "e", "n", "d", "e", "d", ":", " ", "M", "a", "r", "c", "h", " ", "3", "1", ",", " ", "2", "0", "2", "4", "\n">>

SegFiscalPeriod ==
    <<"f", "o", "r", " ", "t", "h", "e", " ", "f", "i", "s", "c", "a", "l", " ", "p", "e", "r", "i", "o", "d", " ", "e", "n", "d", "e", "d", ":", "\n", "J", "u", "n", "e", " ", "5", ",", " ", "2", "0", "2", "3", "\n">>

SegFiscalYear ==
    <<"F", "o", "r", " ", "t", "h", "e", " ", " ", "f", "i", "s", "c", "a", "l", " ", "y", "e", "a", "r", " ", "e", "n", "d", "e", "d", ":", " ", "O", "c", "t", "o", "b", "e", "r", " ", "3", "1", ",", " ", "2", "0", "2", "3", "\n">>

SegSingleSpace ==
    <<"f", "o", "r", " ", "t", "h", "e", " ", "f", "i", "s", "c", "a", "l", " ", "y", "e", "a", "r", " ", "e", "n", "d", "e", "d", ":", " ", "M", "a", "y", " ", "1", ",", " ", "2", "0", "2", "3", "\n">>

\* page texts of an uploaded document
Segments == {SegQuarterly, SegFiscalPeriod, SegFiscalYear, SegSingleSpace}
PageSeqs == SeqsUpTo(Segments, MaxPages)

\* documents uploaded to main, as the texts of their pages
Uploads == {<<>>, <<SegSingleSpace>>, <<SegQuarterly>>, <<SegFiscalYear, SegQuarterly>>}

EntLincoln ==
    <<"L", "i", "n", "c", "o", "l", "n", " ", "G", "r", "o", "u", "p">>

EntAcme ==
    <<"A", "c", "m", "e", " ", "I", "n", "c", ".">>

EntSec ==
    <<"S", "E", "C">>

\* ORG entities of the recognizer
Entities == {EntLincoln, EntAcme, EntSec}
EntSeqs == SeqsUpTo(Entities, MaxEnts)

Kw1 ==
    <<"E", "a", "r", "n", "i", "n", "g", "s", " ", "b", "e", "f", "o", "r", "e", " ", "p", "r", "o", "v", "i", "s", "i", "o", "n", " ", "f", "o", "r", " ", "t", "a", "x", "e", "s">>

Kw2 ==
    <<"t", "o", "t", "a", "l", " ", "c", "u", "r", "r", "e", "n", "t", " ", "a", "s", "s", "e", "t", "s">>

Kw3 ==
    <<"t", "o", "t", "a", "l", " ", "c", "u", "r", "r", "e", "n", "t", " ", "l", "i", "a", "b", "i", "l", "i", "t", "i", "e", "s">>

Kw4 ==
    <<"n", "e", "t", " ", "c", "a", "s", "h", " ", "p", "r", "o", "v", "i", "d", "e", "d", " ", "b", "y", " ", "o", "p", "e", "r", "a", "t", "i", "n", "g", " ", "a", "c", "t", "i", "v", "i", "t", "i", "e", "s">>

Kw5 ==
    <<"n", "e", "t", " ", "c", "a", "s", "h", " ", "u", "s", "e", "d", " ", "i", "n", " ", "i", "n", "v", "e", "s", "t", "i", "n", "g", " ", "a", "c", "t", "i", "v", "i", "t", "i", "e", "s">>

\* main, lines 162-163
main_keywords == <<Kw1, Kw2, Kw3, Kw4, Kw5>>

NbrAssets ==
    <<"T", "o", "t", "a", "l", " ", "C", "u", "r", "r", "e", "n", "t", " ", "A", "s", "s", "e", "t", "s", " ", "9">>

NbrOther ==
    <<"R", "e", "v", "e", "n", "u", "e", " ", "5">>

KwAb ==
    <<"A", "b">>

KwC ==
    <<"c">>

NbrXab ==
    <<"x", "a", "B">>

NbrC ==
    <<"C">>

NbrZ ==
    <<"z">>

\* text inside a table's bounding box on its page, and keyword lists
MainClips == {NbrAssets, NbrOther}
DirectClips == {NbrXab, NbrC, NbrZ}
KeywordLists == {<<>>, <<KwAb>>, <<KwC, KwAb>>}

----------------------------------------------------------------------------
\* The state machine

Init ==
    /\ pc = "idle"
    /\ caller = "none"
    /\ text = <<>>
    /\ company_names = <<>>
    /\ periodStatus = "none"
    /\ doc_period = <<>>
    /\ keywords = <<>>
    /\ tables = <<>>
    /\ idx = 0
    /\ keyword_tables = <<>>
    /\ docBound = FALSE
    /\ dataframes = <<>>
    /\ tblErr = "none"
    /\ tempFiles = 0
    /\ openHandles = 0
    /\ msgs = <<>>
    /\ shownCompany = <<>>
    /\ shownPeriod = <<>>
    /\ shownTables = <<>>
    /\ ran = {}
    /\ outerExc = "none"
    /\ qaErr = "none"

metaVars == <<text, company_names, periodStatus, doc_period, shownCompany, shownPeriod>>
tblVars == <<keywords, tables, idx, keyword_tables, docBound, dataframes, tblErr>>

\* an outer handler that swallows the error without reporting it
OuterExcept_silent(kind) ==
    /\ outerExc' = kind
    /\ msgs' = msgs
    /\ pc' = "done"

\* main, lines 200-201: the outer handler reports the error and main returns
OuterExcept(kind) ==
    /\ outerExc' = kind
    /\ msgs' = Append(msgs, OuterErrorMsg)
    /\ pc' = "done"

\* an exception leaves the function: to main's outer handler, or to the
\* caller of a direct call
Propagate(kind) ==
    IF caller = "main"
    THEN OuterExcept(kind)
    ELSE /\ outerExc' = kind
         /\ pc' = "returned"
         /\ msgs' = msgs

\* extract_specific_dates called on its own
CallExtractSpecificDates ==
    /\ pc = "idle"
    /\ \E pgs \in PageSeqs :
        LET r == extract_specific_dates(Concat(pgs))
        IN  /\ text' = Concat(pgs)
            /\ periodStatus' = r.status
            /\ doc_period' = r.value
            /\ outerExc' = IF r.status = "raised" THEN "period" ELSE "none"
    /\ caller' = "direct"
    /\ ran' = {"period"}
    /\ pc' = "returned"
    /\ UNCHANGED <<company_names, shownCompany, shownPeriod, tblVars,
                   tempFiles, openHandles, msgs, shownTables, qaErr>>

\* main, lines 130-132 and 203-205: without an uploaded file main shows the
\* example image and returns
MainNoUpload ==
    /\ pc = "idle"
    /\ caller' = "main"
    /\ pc' = "done"
    /\ UNCHANGED <<metaVars, tblVars, tempFiles, openHandles, msgs, shownTables, ran,
                   outerExc, qaErr>>

\* main, lines 132-137, with extract_text_from_pdf (lines 56-62): fitz.open
\* or the get_text of page failAt may raise; doc.close() is reached only when
\* no page raises
MainExtractText ==
    /\ pc = "idle"
    /\ caller' = "main"
    /\ ran' = {"text"}
    /\ \E pgs \in Uploads, opened \in BOOLEAN : \E failAt \in 0..Len(pgs) :
        /\ (~opened => failAt = 0)
        /\ IF ~opened
           THEN /\ OuterExcept("text")
                /\ UNCHANGED <<text, openHandles>>
           ELSE IF failAt > 0
           THEN /\ OuterExcept("text")
                /\ openHandles' = openHandles + 1
                /\ UNCHANGED text
           ELSE /\ text' = Concat(pgs)
                /\ pc' = "company"
                /\ UNCHANGED <<openHandles, outerExc, msgs>>
    /\ UNCHANGED <<company_names, periodStatus, doc_period, shownCompany,
                   shownPeriod, tblVars, tempFiles, shownTables, qaErr>>

\* main, lines 142-151, with extract_company_name (lines 64-68)
MainCompany ==
    /\ pc = "company"
    /\ ran' = ran \cup {"company"}
    /\ \E ents \in EntSeqs, loaded \in BOOLEAN :
        /\ (~loaded => ents = <<>>)
        /\ IF ~loaded
           THEN /\ OuterExcept("ner")
                /\ UNCHANGED <<company_names, shownCompany>>
           ELSE /\ company_names' = ents
                /\ IF ents # <<>>
                   THEN /\ shownCompany' = Title(first_company(ents))
                        /\ msgs' = msgs
                   ELSE /\ shownCompany' = shownCompany
                        /\ msgs' = Append(msgs, NoCompanyMsg)
                /\ pc' = "period"
                /\ UNCHANGED outerExc
    /\ UNCHANGED <<caller, text, periodStatus, doc_period, shownPeriod, tblVars,
                   tempFiles, openHandles, shownTables, qaErr>>

\* main, lines 153-158, with extract_specific_dates
MainPeriod ==
    /\ pc = "period"
    /\ ran' = ran \cup {"period"}
    /\ LET r == extract_specific_dates(text)
       IN  /\ periodStatus' = r.status
           /\ doc_period' = r.value
           /\ IF r.status = "raised"
              THEN /\ OuterExcept("period")
                   /\ UNCHANGED shownPeriod
              ELSE /\ IF r.value # <<>>
                      THEN /\ shownPeriod' = r.value
                           /\ msgs' = msgs
                      ELSE /\ shownPeriod' = shownPeriod
                           /\ msgs' = Append(msgs, NoDatesMsg)
                   /\ pc' = "tables"
                   /\ UNCHANGED outerExc
    /\ UNCHANGED <<caller, text, company_names, shownCompany, tblVars,
                   tempFiles, openHandles, shownTables, qaErr>>

\* main, lines 160-165: the call of extract_key_tables_from_pdf
MainTables ==
    /\ pc = "tables"
    /\ ran' = ran \cup {"tables"}
    /\ keywords' = main_keywords
    /\ pc' = "tbl_temp"
    /\ UNCHANGED <<caller, metaVars, tables, idx, keyword_tables, docBound,
                   dataframes, tblErr, tempFiles, openHandles, msgs, shownTables,
                   outerExc, qaErr>>

\* extract_key_tables_from_pdf called on its own
CallExtractKeyTables ==
    /\ pc = "idle"
    /\ caller' = "direct"
    /\ ran' = {"tables"}
    /\ keywords' \in KeywordLists
    /\ pc' = "tbl_temp"
    /\ UNCHANGED <<metaVars, tables, idx, keyword_tables, docBound,
                   dataframes, tblErr, tempFiles, openHandles, msgs, shownTables,
                   outerExc, qaErr>>

\* extract_key_tables_from_pdf, lines 74-78: the temporary file is created
\* with delete=False; the write may raise, outside the try; the file name is
\* never empty, so the else branch of lines 101-103 is not taken
TblTemp ==
    /\ pc = "tbl_temp"
    /\ tempFiles' = tempFiles + 1
    /\ \E written \in BOOLEAN :
        IF written
        THEN /\ pc' = "tbl_detect"
             /\ UNCHANGED <<tblErr, outerExc, msgs>>
        ELSE /\ tblErr' = "tempwrite"
             /\ Propagate("tables")
    /\ UNCHANGED <<caller, metaVars, keywords, tables, idx, keyword_tables,
                   docBound, dataframes, openHandles, shownTables, ran, qaErr>>

\* return of extract_key_tables_from_pdf: the locals go out of scope
TblReturn(result) ==
    /\ dataframes' = result
    /\ idx' = 0
    /\ keyword_tables' = <<>>
    /\ docBound' = FALSE
    /\ pc' = IF caller = "main" THEN "show_tables" ELSE "returned"

\* a function without the try/except: the exception leaves it
TblExcept_reraise(kind, handles) ==
    /\ tblErr' = kind
    /\ Propagate("tables")
    /\ UNCHANGED <<dataframes, idx, keyword_tables, docBound>>
    /\ openHandles' = handles

\* extract_key_tables_from_pdf, lines 97-99: the handler reports the error and
\* returns []; handles is the number of handles open when the exception was
\* raised, none of which is closed
TblExcept(kind, handles) ==
    /\ tblErr' = kind
    /\ msgs' = Append(msgs, TablesErrorMsg)
    /\ TblReturn(<<>>)
    /\ openHandles' = handles
    /\ UNCHANGED outerExc

\* lines 80-81: camelot.read_pdf raises or returns the detected tables
TblDetect ==
    /\ pc = "tbl_detect"
    /\ \E detected \in BOOLEAN :
        IF detected
        THEN /\ tables' \in SeqsUpTo(IF caller = "main" THEN MainClips ELSE DirectClips,
                                     MaxTables)
             /\ keyword_tables' = <<>>
             /\ idx' = 1
             /\ pc' = "tbl_loop"
             /\ UNCHANGED <<docBound, dataframes, tblErr, msgs, openHandles, outerExc>>
        ELSE /\ TblExcept("detect", openHandles)
             /\ UNCHANGED tables
    /\ UNCHANGED <<caller, metaVars, keywords, tempFiles, shownTables, ran, qaErr>>

\* lines 82-92: one iteration of the loop; fitz.open or get_text may raise;
\* doc is rebound to the newly opened handle without closing the one it
\* named before
TblIter ==
    /\ pc = "tbl_loop"
    /\ idx <= Len(tables)
    /\ \E outcome \in {"ok", "open", "get_text"} :
        IF outcome = "open"
        THEN TblExcept("open", openHandles)
        ELSE IF outcome = "get_text"
        THEN TblExcept("get_text", openHandles + 1)
        ELSE /\ docBound' = TRUE
             /\ openHandles' = openHandles + 1
             /\ keyword_tables' =
                   IF contains_keywords(tables[idx], keywords)
                   THEN Append(keyword_tables, idx)
                   ELSE keyword_tables
             /\ idx' = idx + 1
             /\ UNCHANGED <<pc, dataframes, tblErr, msgs, outerExc>>
    /\ UNCHANGED <<caller, metaVars, keywords, tables, tempFiles, shownTables, ran, qaErr>>

\* lines 94-95: doc.close() after the loop closes the last handle opened;
\* with no table doc was never bound and the NameError goes to the handler
TblClose ==
    /\ pc = "tbl_loop"
    /\ idx > Len(tables)
    /\ IF docBound
       THEN /\ openHandles' = openHandles - 1
            /\ TblReturn(keyword_tables)
            /\ UNCHANGED <<tblErr, msgs, outerExc>>
       ELSE TblExcept("unbound", openHandles)
    /\ UNCHANGED <<caller, metaVars, keywords, tables, tempFiles, shownTables, ran, qaErr>>

\* main, lines 167-175
MainShowTables ==
    /\ pc = "show_tables"
    /\ ran' = ran \cup {"show"}
    /\ IF dataframes # <<>>
       THEN /\ shownTables' = enumerate_dataframes(dataframes)
            /\ msgs' = msgs
       ELSE /\ shownTables' = shownTables
            /\ msgs' = Append(msgs, NoTablesMsg)
    /\ pc' = "qa"
    /\ UNCHANGED <<caller, metaVars, tblVars, tempFiles, openHandles,
                   outerExc, qaErr>>

\* main, lines 177-198, with load_pdf_and_create_index (lines 41-54): the
\* temporary file is created with delete=False; building the index, the
\* OpenAI constructors (no OPENAI_API_KEY in the environment) or the model
\* call may raise into the handler; without a query nothing is written
MainQA ==
    /\ pc = "qa"
    /\ ran' = ran \cup {"qa"}
    /\ tempFiles' = tempFiles + 1
    /\ \E out \in {"index", "credential", "model", "noquery", "answer"} :
        IF out \in {"index", "credential", "model"}
        THEN /\ qaErr' = out
             /\ msgs' = Append(msgs, QAErrorMsg)
        ELSE /\ qaErr' = qaErr
             /\ msgs' = IF out = "answer"
                        THEN msgs \o <<AnswerMsg, SourcesMsg>>
                        ELSE msgs
    /\ pc' = "done"
    /\ UNCHANGED <<caller, metaVars, tblVars, openHandles, shownTables, outerExc>>

Next ==
    \/ CallExtractSpecificDates
    \/ CallExtractKeyTables
    \/ MainNoUpload
    \/ MainExtractText
    \/ MainCompany
    \/ MainPeriod
    \/ MainTables
    \/ TblTemp
    \/ TblDetect
    \/ TblIter
    \/ TblClose
    \/ MainShowTables
    \/ MainQA

Spec == Init /\ [][Next]_vars

----------------------------------------------------------------------------
\* Properties

MinOf(a, b) == IF a < b THEN a ELSE b

\* keyword kw occurs in t at some position, comparing characters without case
KeywordOccursIn(kw, t) ==
    \E p \in 1..(Len(t) - Len(kw) + 1) :
        \A j \in 1..Len(kw) : LowerChar(t[p + j - 1]) = LowerChar(kw[j])

\* detection indices of the tables whose clipped text holds a keyword
ExpectedTables(ts, kws) ==
    SelectSeq([i \in 1..Len(ts) |-> i],
              LAMBDA i : \E k \in 1..Len(kws) : KeywordOccursIn(kws[k], ts[i]))

\* extract_key_tables_from_pdf has returned a value
TablesReturned ==
    /\ "tables" \in ran
    /\ pc \in {"returned", "show_tables", "qa", "done"}
    /\ tblErr # "tempwrite"

TableStepRaised == tblErr \in {"detect", "open", "get_text"}

\* C1: when neither detection nor neighborhood extraction raised, the value
\* returned by extract_key_tables_from_pdf is exactly the grids of the tables
\* whose clipped text contains a keyword case-insensitively, in detection
\* order, each once; with no keyword the result is empty
C1_KeyTablesExact ==
    (TablesReturned /\ ~TableStepRaised) =>
        /\ dataframes = ExpectedTables(tables, keywords)
        /\ (keywords = <<>> => dataframes = <<>>)

\* a call that kept a table matching only when case is ignored and dropped another
C1_Witness ==
    /\ TablesReturned
    /\ tblErr = "none"
    /\ Len(dataframes) >= 1
    /\ Len(dataframes) < Len(tables)
    /\ \E n \in 1..Len(dataframes) :
          \A k \in 1..Len(keywords) : ~Contains(tables[dataframes[n]], keywords[k])

HasPeriodMatch(t) == \E s \in {Lower(t)} : \E i \in 1..Len(s) : date_pattern(s, i) # {}

\* the texts of the leftmost match of the pattern in s (at most one)
FirstMatchText(s) ==
    UNION {{SubSeq(s, p, m.end - 1) : m \in date_pattern(s, p)} :
           p \in {p \in 1..Len(s) : /\ date_pattern(s, p) # {}
                                    /\ \A q \in 1..(p - 1) : date_pattern(s, q) = {}}}

\* C2: with no match of the period pattern extract_specific_dates returns a
\* sentinel, main shows the not-found message and goes on to the table and
\* QA branches
C2_MissingPeriodNotFatal ==
    (caller = "main" /\ "period" \in ran /\ ~HasPeriodMatch(text)) =>
        /\ periodStatus = "returned"
        /\ Shown(NoDatesMsg)
        /\ outerExc = "none"
        /\ (pc = "done" => {"tables", "qa"} \subseteq ran)

\* C3: for a text with a match of either phrasing extract_specific_dates
\* returns the non-empty title-cased text of the first match
C3_FirstMatchReturned ==
    (periodStatus # "none" /\ HasPeriodMatch(text)) =>
        /\ periodStatus = "returned"
        /\ doc_period # <<>>
        /\ \E s \in {Lower(text)} : \E m \in FirstMatchText(s) : doc_period = Title(m)

\* C4 as stated: every retained table is shown, the first three with the
\* fixed labels and the later ones labelled by their ordinal position
C4_AllRetainedLabelled ==
    "show" \in ran =>
        /\ Len(shownTables) = Len(dataframes)
        /\ \A i \in 1..Len(dataframes) :
              shownTables[i] =
                  [label |-> IF i <= 3 THEN table_labels[i] ELSE "Table " \o ToString(i),
                   df |-> dataframes[i]]

\* C4: only the first three retained tables are shown, the i-th with the
\* i-th fixed label; for n retained tables min(n, 3) labelled tables are shown
C4_FirstThreeLabelled ==
    "show" \in ran =>
        /\ Len(shownTables) = MinOf(Len(dataframes), 3)
        /\ \A i \in 1..Len(shownTables) :
              shownTables[i] = [label |-> table_labels[i], df |-> dataframes[i]]

\* four tables were retained and three are shown
C4_Witness ==
    /\ "show" \in ran
    /\ Len(dataframes) = 4
    /\ Len(shownTables) = 3

\* C5: no temporary file exists once the request or the call has ended
C5_TempFilesDeleted ==
    pc \in {"done", "returned"} => tempFiles = 0

MetadataShown ==
    /\ (shownCompany # <<>> \/ Shown(NoCompanyMsg))
    /\ (shownPeriod # <<>> \/ Shown(NoDatesMsg))

TableResultsShown ==
    /\ "show" \in ran
    /\ IF dataframes = <<>> THEN Shown(NoTablesMsg) ELSE shownTables # <<>>

\* C6: a failure of detection or neighborhood extraction gives an empty table
\* list and a message, with the metadata shown and the QA branch run; a
\* failure in the QA branch is reported with the metadata and table results
\* shown
C6_BranchesIsolated ==
    /\ (caller = "main" /\ TableStepRaised) =>
          /\ pc \in {"show_tables", "qa", "done"}
          /\ dataframes = <<>>
          /\ Shown(TablesErrorMsg)
          /\ MetadataShown
          /\ outerExc = "none"
          /\ (pc = "done" => {"show", "qa"} \subseteq ran)
    /\ qaErr # "none" =>
          /\ pc = "done"
          /\ Shown(QAErrorMsg)
          /\ MetadataShown
          /\ TableResultsShown
          /\ outerExc = "none"

\* a request in which table extraction and then the QA branch both failed
C6_Witness ==
    /\ pc = "done"
    /\ tblErr = "get_text"
    /\ qaErr = "credential"
    /\ "qa" \in ran

MarkIncDot == MarkInc \o <<".">>

PassesLiteralMarker(e) ==
    \E m \in {MarkCompany, MarkIncDot, MarkLtd, MarkEnterprise, MarkCorporation} :
        Contains(Lower(e), m)

ExpectedCompany(names) ==
    LET f == SelectSeq(names, PassesLiteralMarker)
    IN  IF f # <<>> THEN f[1] ELSE Unknown

\* C7: for every sequence of ORG entities, the empty one included, the name
\* reported (title-cased) is the first entity containing a marker as a
\* literal substring, "Unknown" if there is none
C7_FirstLiteralMarker ==
    ("company" \in ran /\ outerExc # "ner") =>
        shownCompany = Title(ExpectedCompany(company_names))

\* C8: when extract_text_from_pdf raises no downstream branch runs, the
\* failure is shown as a message and main returns
C8_UnreadableStops ==
    outerExc = "text" =>
        /\ pc = "done"
        /\ ran = {"text"}
        /\ msgs = <<OuterErrorMsg>>
        /\ company_names = <<>>
        /\ shownCompany = <<>>
        /\ periodStatus = "none"
        /\ shownPeriod = <<>>
        /\ tblErr = "none"
        /\ shownTables = <<>>
        /\ tempFiles = 0
        /\ qaErr = "none"

\* main has returned after extract_text_from_pdf raised
C8_Witness ==
    /\ caller = "main"
    /\ outerExc = "text"
    /\ pc = "done"

\* C9: extract_key_tables_from_pdf shows its error message only if detection
\* or neighborhood extraction raised
C9_ErrorOnlyIfRaised ==
    ("tables" \in ran /\ Shown(TablesErrorMsg)) => TableStepRaised

\* C10: no document handle is open when extract_text_from_pdf or
\* extract_key_tables_from_pdf has returned or raised
C10_NoOpenHandleAtExit ==
    pc \in {"company", "show_tables", "returned", "done"} => openHandles = 0

====
